---- MODULE Spec2Model ----
(***************************************************************************)
(* cargo-open: one invocation of `cargo open <CRATE>` (src/main.rs).       *)
(*                                                                         *)
(* main -> try_main: Cli::parse, get_metadata, get_package,                *)
(* get_package_path, get_editor_path, run_editor.  Every step returns a    *)
(* Result; `?` hands an Err to main, which formats it and exits.           *)
(*                                                                         *)
(* A path is a sequence of tokens: the separator "/" and name tokens.      *)
(* Option<T> is a sequence of length 0 (None) or 1 (Some).                 *)
(***************************************************************************)
EXTENDS Integers, Sequences, FiniteSets, TLC

\* ---- bounds -------------------------------------------------------------
\* most packages in the metadata the external command returns
MaxPkgs == 2
\* the editor's exit status ranges over 0..MaxStatus
MaxStatus == 1

\* ---- Option / Result ----------------------------------------------------
None == <<>>
Some(x) == <<x>>
IsSome(o) == Len(o) = 1

Ok(v) == [ok |-> TRUE, val |-> v]
Err(e) == [ok |-> FALSE, val |-> e]

\* ---- input domains ------------------------------------------------------
Sep == "/"
\* package names; the two differ only in case
Names == {"clap", "Clap"}

EmptyPath == <<>>
RootOnly == <<Sep>>
BareFile == <<"Cargo.toml">>
ClapManifest == <<Sep, "d", Sep, "Cargo.toml">>
OtherManifest == <<Sep, "e", Sep, "Cargo.toml">>
RelManifest == <<"d", Sep, "Cargo.toml">>
\* manifest paths the metadata may carry
ManifestPaths ==
    {EmptyPath, RootOnly, BareFile, ClapManifest, OtherManifest, RelManifest}

PackageRecs == [name : Names, manifest_path : ManifestPaths]
PackageLists == UNION {[1..n -> PackageRecs] : n \in 0..MaxPkgs}

\* an OsString that is not valid Unicode
NonUnicode == "<non-unicode bytes>"
OsValues == {"", "vim", NonUnicode}
EditorVars == {"CARGO_EDITOR", "VISUAL", "EDITOR"}
\* the process environment restricted to the three variables
Environments == [EditorVars -> {None} \cup {Some(v) : v \in OsValues}]

\* command lines after the binary name
ArgvSet ==
    { <<"open", "clap">>,
      <<"open", "clap", "--manifest-path", "Cargo.toml">>,
      <<"open", "--help">>,
      <<"open">>,
      <<>> }

\* ---- Cli::parse ---------------------------------------------------------
\* clap's derive parser for `enum Cli { Open(Args) }`: Ok(args), or the
\* clap error kind it exits with.
ParseArgs(av) ==
    IF \E i \in 1..Len(av) : av[i] \in {"--help", "-h"}
      THEN Err("DisplayHelp")
    ELSE IF Len(av) = 2 /\ av[1] = "open" /\ av[2] # "--manifest-path"
      THEN Ok([package_name |-> av[2], manifest_path |-> None])
    ELSE IF Len(av) = 4 /\ av[1] = "open" /\ av[2] # "--manifest-path"
            /\ av[3] = "--manifest-path"
      THEN Ok([package_name |-> av[2], manifest_path |-> Some(av[4])])
    ELSE IF Len(av) = 0
      THEN Err("DisplayHelpOnMissingArgumentOrSubcommand")
    ELSE Err("MissingRequiredArgument")

\* clap Error::exit: help and version displays go to stdout and exit 0,
\* every other kind goes to stderr and exits 2.
ExitCodeOf(kind) ==
    IF kind \in {"DisplayHelp", "DisplayVersion"} THEN 0 ELSE 2

\* ---- get_package --------------------------------------------------------
\* the scan keeps going and ends on the last package of that name
RECURSIVE FindLast(_, _, _)
FindLast(pkgs, package_name, i) ==
    IF i > Len(pkgs) THEN 0
    ELSE LET later == FindLast(pkgs, package_name, i + 1)
         IN  IF later # 0 THEN later
             ELSE IF pkgs[i].name = package_name THEN i ELSE 0

\* Iterator::find over metadata.packages from position i: index of the
\* first package whose name equals package_name, 0 when there is none.
RECURSIVE Find(_, _, _)
Find(pkgs, package_name, i) ==
    IF i > Len(pkgs) THEN 0
    ELSE IF pkgs[i].name = package_name THEN i
    ELSE Find(pkgs, package_name, i + 1)

get_package(package_name, pkgs) ==
    LET i == Find(pkgs, package_name, 1)
    IN  IF i = 0 THEN Err("Package not found") ELSE Ok(i)

\* ---- get_package_path ---------------------------------------------------
HasRoot(p) == Len(p) > 0 /\ p[1] = Sep
RootLen(p) == IF HasRoot(p) THEN 1 ELSE 0

\* drop trailing separators, never the root
RECURSIVE TrimSeps(_, _)
TrimSeps(p, rootlen) ==
    IF Len(p) > rootlen /\ p[Len(p)] = Sep
      THEN TrimSeps(SubSeq(p, 1, Len(p) - 1), rootlen)
      ELSE p

\* drop the trailing name tokens (the last component)
RECURSIVE DropName(_, _)
DropName(p, rootlen) ==
    IF Len(p) > rootlen /\ p[Len(p)] # Sep
      THEN DropName(SubSeq(p, 1, Len(p) - 1), rootlen)
      ELSE p

\* a parent that is the empty path counts as no parent
ParentNonEmpty(p) ==
    LET rootlen == RootLen(p)
        body == TrimSeps(p, rootlen)
        rest == TrimSeps(DropName(body, rootlen), rootlen)
    IN  IF Len(body) = rootlen \/ rest = <<>> THEN None ELSE Some(rest)

\* Path::parent: None when the last component is the root or the path is
\* empty, else the path without its last normal component.
Parent(p) ==
    LET rootlen == RootLen(p)
        body == TrimSeps(p, rootlen)
    IN  IF Len(body) = rootlen THEN None
        ELSE Some(TrimSeps(DropName(body, rootlen), rootlen))

get_package_path(package) ==
    LET parent == Parent(package.manifest_path)
    IN  IF IsSome(parent) THEN Ok(parent[1]) ELSE Err("Path error")

\* ---- get_editor_path ----------------------------------------------------
\* var_os with a lossy conversion: a non-Unicode value is passed through
env_var_lossy(e, key) ==
    IF e[key] = None THEN Err("NotPresent") ELSE Ok(e[key][1])

\* std::env::var: Err(NotPresent) when unset, Err(NotUnicode) when the value
\* is not valid Unicode, else Ok(value).
env_var(e, key) ==
    IF e[key] = None THEN Err("NotPresent")
    ELSE IF e[key][1] = NonUnicode THEN Err("NotUnicode")
    ELSE Ok(e[key][1])

\* EDITOR is consulted before VISUAL
get_editor_path_swapped(e) ==
    LET r1 == env_var(e, "CARGO_EDITOR")
        r2 == IF r1.ok THEN r1 ELSE env_var(e, "EDITOR")
        r3 == IF r2.ok THEN r2 ELSE env_var(e, "VISUAL")
    IN  IF r3.ok THEN Ok(r3.val) ELSE Err("Cannot resolve editor")

\* an empty value is skipped like an unset variable
get_editor_path_nonempty(e) ==
    LET skip(r) == IF r.ok /\ r.val = "" THEN Err("NotPresent") ELSE r
        r1 == skip(env_var(e, "CARGO_EDITOR"))
        r2 == IF r1.ok THEN r1 ELSE skip(env_var(e, "VISUAL"))
        r3 == IF r2.ok THEN r2 ELSE skip(env_var(e, "EDITOR"))
    IN  IF r3.ok THEN Ok(r3.val) ELSE Err("Cannot resolve editor")

get_editor_path(e) ==
    LET r1 == env_var(e, "CARGO_EDITOR")
        r2 == IF r1.ok THEN r1 ELSE env_var(e, "VISUAL")
        r3 == IF r2.ok THEN r2 ELSE env_var(e, "EDITOR")
    IN  IF r3.ok THEN Ok(r3.val) ELSE Err("Cannot resolve editor")

\* ---- state --------------------------------------------------------------
VARIABLES
    argv,          \* the command line
    env,           \* the process environment
    pc,            \* position in main / try_main
    args,          \* Option<Args> returned by Cli::parse
    metadata,      \* Option<packages> returned by get_metadata
    package,       \* index into metadata.packages (a reference), 0 before
    package_path,  \* Option<PathBuf>
    editor_path,   \* Option<PathBuf>
    spawned,       \* the commands handed to the OS, in order
    child,         \* the editor process: "none", "running", "exited"
    child_status,  \* Option<exit status> of the editor process
    error,         \* Option<error message> carried by an Err
    exit_code,     \* Option<exit code> of this process
    log            \* the steps begun so far, in order

vars == <<argv, env, pc, args, metadata, package, package_path, editor_path,
          spawned, child, child_status, error, exit_code, log>>

Init ==
    /\ argv \in ArgvSet
    /\ env \in Environments
    /\ pc = "parse"
    /\ args = None
    /\ metadata = None
    /\ package = 0
    /\ package_path = None
    /\ editor_path = None
    /\ spawned = <<>>
    /\ child = "none"
    /\ child_status = None
    /\ error = None
    /\ exit_code = None
    /\ log = <<>>

\* ---- try_main -----------------------------------------------------------
\* let Cli::Open(args) = Cli::parse();  parse exits the process itself
\* when the command line is not accepted.
Parse ==
    /\ pc = "parse"
    /\ log' = Append(log, "parse")
    /\ LET r == ParseArgs(argv)
       IN  IF r.ok
             THEN /\ args' = Some(r.val)
                  /\ pc' = "get_metadata"
                  /\ UNCHANGED <<error, exit_code>>
             ELSE /\ error' = Some(r.val)
                  /\ exit_code' = Some(ExitCodeOf(r.val))
                  /\ pc' = "exited"
                  /\ UNCHANGED args
    /\ UNCHANGED <<argv, env, metadata, package, package_path, editor_path,
                   spawned, child, child_status>>

\* let metadata = get_metadata(args.manifest_path)?;
\* the external `cargo metadata` either fails or returns a package list.
GetMetadata ==
    /\ pc = "get_metadata"
    /\ log' = Append(log, "get_metadata")
    /\ \/ /\ \E pkgs \in PackageLists : metadata' = Some(pkgs)
          /\ pc' = "get_package"
          /\ UNCHANGED error
       \/ /\ error' = Some("Metadata error")
          /\ pc' = "main_err"
          /\ UNCHANGED metadata
    /\ UNCHANGED <<argv, env, args, package, package_path, editor_path,
                   spawned, child, child_status, exit_code>>

\* a missing package is recorded but the run goes on to the editor
GetPackageRecover ==
    /\ pc = "get_package"
    /\ log' = Append(log, "get_package")
    /\ LET r == get_package(args[1].package_name, metadata[1])
       IN  IF r.ok
             THEN /\ package' = r.val
                  /\ pc' = "get_package_path"
                  /\ UNCHANGED error
             ELSE /\ error' = Some(r.val)
                  /\ pc' = "get_editor_path"
                  /\ UNCHANGED package
    /\ UNCHANGED <<argv, env, args, metadata, package_path, editor_path,
                   spawned, child, child_status, exit_code>>

\* let package = get_package(&args.package_name, &metadata)?;
GetPackage ==
    /\ pc = "get_package"
    /\ log' = Append(log, "get_package")
    /\ LET r == get_package(args[1].package_name, metadata[1])
       IN  IF r.ok
             THEN /\ package' = r.val
                  /\ pc' = "get_package_path"
                  /\ UNCHANGED error
             ELSE /\ error' = Some(r.val)
                  /\ pc' = "main_err"
                  /\ UNCHANGED package
    /\ UNCHANGED <<argv, env, args, metadata, package_path, editor_path,
                   spawned, child, child_status, exit_code>>

\* lines 82 and 83 in the other order: the editor is resolved first
GetPackagePathAfterEditor ==
    /\ pc = "get_package_path"
    /\ log' = log \o <<"get_editor_path", "get_package_path">>
    /\ LET e == get_editor_path(env)
           r == get_package_path(metadata[1][package])
       IN  IF ~e.ok
             THEN /\ error' = Some(e.val)
                  /\ pc' = "main_err"
                  /\ UNCHANGED <<editor_path, package_path>>
           ELSE IF ~r.ok
             THEN /\ error' = Some(r.val)
                  /\ editor_path' = Some(e.val)
                  /\ pc' = "main_err"
                  /\ UNCHANGED package_path
           ELSE /\ editor_path' = Some(e.val)
                /\ package_path' = Some(r.val)
                /\ pc' = "run_editor"
                /\ UNCHANGED error
    /\ UNCHANGED <<argv, env, args, metadata, package,
                   spawned, child, child_status, exit_code>>

\* let package_path = get_package_path(package)?;
GetPackagePath ==
    /\ pc = "get_package_path"
    /\ log' = Append(log, "get_package_path")
    /\ LET r == get_package_path(metadata[1][package])
       IN  IF r.ok
             THEN /\ package_path' = Some(r.val)
                  /\ pc' = "get_editor_path"
                  /\ UNCHANGED error
             ELSE /\ error' = Some(r.val)
                  /\ pc' = "main_err"
                  /\ UNCHANGED package_path
    /\ UNCHANGED <<argv, env, args, metadata, package, editor_path,
                   spawned, child, child_status, exit_code>>

\* let editor_path = get_editor_path()?;
GetEditorPath ==
    /\ pc = "get_editor_path"
    /\ log' = Append(log, "get_editor_path")
    /\ LET r == get_editor_path(env)
       IN  IF r.ok
             THEN /\ editor_path' = Some(r.val)
                  /\ pc' = "run_editor"
                  /\ UNCHANGED error
             ELSE /\ error' = Some(r.val)
                  /\ pc' = "main_err"
                  /\ UNCHANGED editor_path
    /\ UNCHANGED <<argv, env, args, metadata, package, package_path,
                   spawned, child, child_status, exit_code>>

\* the editor is handed the manifest file instead of its directory
RunEditorOnManifest ==
    /\ pc = "run_editor"
    /\ log' = Append(log, "run_editor")
    /\ spawned' = Append(spawned, [program |-> editor_path[1],
                                   args |-> <<metadata[1][package].manifest_path>>])
    /\ \/ /\ editor_path[1] # ""
          /\ child' = "running"
          /\ pc' = "wait"
          /\ UNCHANGED error
       \/ /\ error' = Some("Spawn error")
          /\ pc' = "main_err"
          /\ UNCHANGED child
    /\ UNCHANGED <<argv, env, args, metadata, package, package_path,
                   editor_path, child_status, exit_code>>

\* run_editor: Command::new(editor_path).arg(package_path).status()
\* The spawn either starts the child or fails with an io::Error; an empty
\* program name never starts.
RunEditor ==
    /\ pc = "run_editor"
    /\ log' = Append(log, "run_editor")
    /\ spawned' = Append(spawned, [program |-> editor_path[1],
                                   args |-> <<package_path[1]>>])
    /\ \/ /\ editor_path[1] # ""
          /\ child' = "running"
          /\ pc' = "wait"
          /\ UNCHANGED error
       \/ /\ error' = Some("Spawn error")
          /\ pc' = "main_err"
          /\ UNCHANGED child
    /\ UNCHANGED <<argv, env, args, metadata, package, package_path,
                   editor_path, child_status, exit_code>>

\* the editor process terminates with some status
ChildExit ==
    /\ child = "running"
    /\ child' = "exited"
    /\ \E s \in 0..MaxStatus : child_status' = Some(s)
    /\ UNCHANGED <<argv, env, pc, args, metadata, package, package_path,
                   editor_path, spawned, error, exit_code, log>>

\* spawn() without wait(): the call returns while the editor still runs
WaitEditorDetached ==
    /\ pc = "wait"
    /\ pc' = "main_ok"
    /\ UNCHANGED <<argv, env, args, metadata, package, package_path,
                   editor_path, spawned, child, child_status, error,
                   exit_code, log>>

\* .status() returns Ok(ExitStatus) once the child has terminated;
\* `run_editor(..)?;` drops the status and try_main returns Ok(()).
WaitEditor ==
    /\ pc = "wait"
    /\ child = "exited"
    /\ pc' = "main_ok"
    /\ UNCHANGED <<argv, env, args, metadata, package, package_path,
                   editor_path, spawned, child, child_status, error,
                   exit_code, log>>

\* ---- main ---------------------------------------------------------------
\* try_main returned Ok(()): main returns, the process exits 0.
MainOk ==
    /\ pc = "main_ok"
    /\ exit_code' = Some(0)
    /\ pc' = "exited"
    /\ UNCHANGED <<argv, env, args, metadata, package, package_path,
                   editor_path, spawned, child, child_status, error, log>>

\* the error is dropped and main returns normally
MainErrSwallowed ==
    /\ pc = "main_err"
    /\ exit_code' = Some(0)
    /\ pc' = "exited"
    /\ UNCHANGED <<argv, env, args, metadata, package, package_path,
                   editor_path, spawned, child, child_status, error, log>>

\* try_main returned Err(err): err.format(&mut command).exit().  Every
\* error try_main builds is ErrorKind::Io or ErrorKind::InvalidValue.
MainErr ==
    /\ pc = "main_err"
    /\ exit_code' = Some(ExitCodeOf(IF error[1] = "Package not found"
                                      THEN "InvalidValue" ELSE "Io"))
    /\ pc' = "exited"
    /\ UNCHANGED <<argv, env, args, metadata, package, package_path,
                   editor_path, spawned, child, child_status, error, log>>

Next ==
    \/ Parse
    \/ GetMetadata
    \/ GetPackage
    \/ GetPackagePath
    \/ GetEditorPath
    \/ RunEditor
    \/ ChildExit
    \/ WaitEditor
    \/ MainOk
    \/ MainErr

Spec == Init /\ [][Next]_vars

\* ---- vocabulary of the properties ---------------------------------------
Pipeline == <<"parse", "get_metadata", "get_package", "get_package_path",
              "get_editor_path", "run_editor">>
Priority == <<"CARGO_EDITOR", "VISUAL", "EDITOR">>
TryMainErrors == {"Metadata error", "Package not found", "Path error",
                  "Cannot resolve editor", "Spawn error"}

\* step number k of the pipeline has been executed
StepDone(k) == Len(log) >= k
Failed(msg) == error = Some(msg)

\* value of the first variable in priority order that satisfies good
FirstVar(e, good(_)) ==
    LET S == {i \in 1..3 : good(e[Priority[i]])}
    IN  IF S = {} THEN None
        ELSE e[Priority[CHOOSE i \in S : \A j \in S : i <= j]]

IsSetVar(v) == v # None
IsUnicodeVar(v) == v # None /\ v # Some(NonUnicode)

\* the environment with every non-Unicode variable removed
Erase(e) == [k \in EditorVars |-> IF e[k] = Some(NonUnicode) THEN None ELSE e[k]]

\* the resolver's outcome is: this editor (Some) or "Cannot resolve editor" (None)
EditorOutcomeIs(want) ==
    IF want = None
      THEN editor_path = None /\ Failed("Cannot resolve editor")
      ELSE editor_path = want /\ ~Failed("Cannot resolve editor")

\* positions of the packages named as requested
Matches == {i \in 1..Len(metadata[1]) : metadata[1][i].name = args[1].package_name}
FirstMatch == CHOOSE i \in Matches : \A j \in Matches : i <= j

AllSeps(s) == \A i \in 1..Len(s) : s[i] = Sep
NoSeps(s) == \A i \in 1..Len(s) : s[i] # Sep

\* d is the directory of p: p is d, then separators, one name, then
\* separators; d ends in no separator unless it is the root
IsDirOf(d, p) ==
    \E i \in 0..Len(p), j \in 0..Len(p), k \in 0..Len(p) :
        /\ i <= j /\ j < k
        /\ d = SubSeq(p, 1, i)
        /\ AllSeps(SubSeq(p, i + 1, j))
        /\ NoSeps(SubSeq(p, j + 1, k))
        /\ AllSeps(SubSeq(p, k + 1, Len(p)))
        /\ (i > 0 => (d[i] # Sep \/ i = 1))
        /\ (i > 0 /\ d[i] # Sep => j > i)
        /\ (i = 0 => j = 0)

\* p names something: it has a token that is not a separator
HasName(p) == \E i \in 1..Len(p) : p[i] # Sep
\* p has a directory part in front of its name
HasDir(p) == \E i \in 1..Len(p), j \in 1..Len(p) : i < j /\ p[i] = Sep /\ p[j] # Sep

\* ---- properties ---------------------------------------------------------

\* C1 (as stated): once the editor has been resolved, the result is the
\* value of the first variable that is set, in the order CARGO_EDITOR,
\* VISUAL, EDITOR, and the "Cannot resolve editor" error iff none is set.
C1_FirstSetWins ==
    StepDone(5) => EditorOutcomeIs(FirstVar(env, IsSetVar))

\* C1 (amended): once the editor has been resolved, the result is the value
\* of the first variable, in the order CARGO_EDITOR, VISUAL, EDITOR, that is
\* set to valid Unicode, and the "Cannot resolve editor" error iff no
\* variable is set to valid Unicode.
C1_FirstUnicodeWins ==
    StepDone(5) => EditorOutcomeIs(FirstVar(env, IsUnicodeVar))

C1_Witness ==
    /\ StepDone(5)
    /\ env["CARGO_EDITOR"] = None
    /\ env["VISUAL"] = Some("")
    /\ env["EDITOR"] = Some("vim")
    /\ editor_path = Some("")

\* C2: when CARGO_EDITOR is set to the empty string the resolved editor is
\* the empty string, whatever VISUAL and EDITOR hold.
C2_EmptyIsConfigured ==
    (StepDone(5) /\ env["CARGO_EDITOR"] = Some(""))
        => (editor_path = Some("") /\ ~Failed("Cannot resolve editor"))

C2_Witness ==
    /\ StepDone(5)
    /\ env["CARGO_EDITOR"] = Some("")
    /\ env["VISUAL"] = Some("vim")
    /\ editor_path = Some("")

\* C3: when the metadata holds a package named exactly as requested, the
\* package resolved is the first such package, and the path derived is the
\* directory of that package's manifest (derivation succeeds whenever that
\* manifest path names a file).
C3_FirstMatchParent ==
    (StepDone(4) /\ Matches # {})
        => LET m == metadata[1][FirstMatch].manifest_path
           IN  /\ package = FirstMatch
               /\ ~Failed("Package not found")
               /\ HasName(m) => package_path # None
               /\ package_path # None => IsDirOf(package_path[1], m)

C3_Witness ==
    /\ StepDone(4)
    /\ args[1].package_name = "clap"
    /\ metadata[1] = << [name |-> "Clap", manifest_path |-> ClapManifest],
                        [name |-> "clap", manifest_path |-> OtherManifest] >>
    /\ package_path = Some(<<Sep, "e">>)

\* C4: once a step of try_main has failed, no later step runs: nothing more
\* is logged, resolved or spawned, the error stays, and the process can only
\* exit, with a non-zero code.  After "Package not found" the editor was
\* never resolved and never spawned.
C4_FailureIsFatal ==
    [][ (error # None /\ error[1] \in TryMainErrors)
          => /\ log' = log
             /\ error' = error
             /\ spawned' = spawned
             /\ child' = child
             /\ <<metadata, package, package_path, editor_path>>'
                  = <<metadata, package, package_path, editor_path>>
             /\ pc' \in {"main_err", "exited"}
             /\ exit_code' # None => exit_code'[1] # 0
             /\ Failed("Package not found")
                  => /\ editor_path' = None
                     /\ spawned' = <<>>
                     /\ log' = SubSeq(Pipeline, 1, 3) ]_vars

C4_Witness ==
    /\ Failed("Package not found")
    /\ pc = "exited"
    /\ exit_code = Some(2)
    /\ spawned = <<>>
    /\ metadata # None /\ metadata[1] # <<>>

\* C5: while the spawned editor runs the invocation has not exited, and
\* once it exits after a successful spawn its code is 0 whatever status the
\* editor ended with.
C5_WaitsAndExitsZero ==
    /\ child = "running" => (exit_code = None /\ pc = "wait")
    /\ (child # "none" /\ exit_code # None)
         => (child = "exited" /\ exit_code = Some(0) /\ error = None)

C5_Witness ==
    /\ child = "exited"
    /\ child_status # None /\ child_status[1] # 0
    /\ exit_code = Some(0)

\* C6 (as stated): the process exits 0 only if the editor was spawned and
\* awaited in this run.
C6_ZeroOnlyAfterEditor ==
    exit_code = Some(0) => (Len(spawned) = 1 /\ child = "exited")

\* C6 (amended): the process exits 0 only if the editor was spawned and
\* awaited in this run, or command-line parsing ended in a help display; a
\* run that spawned no editor and displayed no help exits non-zero.
C6_ZeroOnlyAfterEditorOrHelp ==
    /\ exit_code = Some(0)
         => \/ Len(spawned) = 1 /\ child = "exited"
            \/ Failed("DisplayHelp") /\ spawned = <<>> /\ log = <<"parse">>
    /\ (exit_code # None /\ child = "none" /\ ~Failed("DisplayHelp"))
         => exit_code[1] # 0

C6_Witness ==
    /\ exit_code = Some(0)
    /\ Len(spawned) = 1
    /\ child = "exited"
    /\ child_status = Some(0)

\* C7: the steps run in the one fixed order, each after the previous one
\* has produced its result; "Cannot resolve editor" occurs only after
\* metadata, package and package path have all been obtained.
C7_TotalOrder ==
    /\ Len(log) <= Len(Pipeline)
    /\ log = SubSeq(Pipeline, 1, Len(log))
    /\ StepDone(2) => args # None
    /\ StepDone(3) => metadata # None
    /\ StepDone(4) => package # 0
    /\ StepDone(5) => package_path # None
    /\ StepDone(6) => editor_path # None
    /\ Failed("Cannot resolve editor")
         => /\ metadata # None /\ package # 0 /\ package_path # None
            /\ log = SubSeq(Pipeline, 1, 5)

C7_Witness ==
    /\ Failed("Cannot resolve editor")
    /\ pc = "exited"
    /\ package_path = Some(<<Sep, "d">>)

\* C8: the editor is spawned at most once; the program is the resolved
\* editor and the only argument is the directory of the resolved package's
\* manifest.  With only EDITOR=vim set and the manifest /d/Cargo.toml the
\* spawn is `vim /d`.
C8_SpawnOnceWithDir ==
    /\ Len(spawned) <= 1
    /\ Len(spawned) = 1
         => LET m == metadata[1][FirstMatch].manifest_path
            IN  /\ Some(spawned[1].program) = editor_path
                /\ Some(spawned[1].program) = FirstVar(env, IsUnicodeVar)
                /\ Len(spawned[1].args) = 1
                /\ Some(spawned[1].args[1]) = package_path
                /\ IsDirOf(spawned[1].args[1], m)
                /\ (m = ClapManifest
                      /\ env = [k \in EditorVars |->
                                  IF k = "EDITOR" THEN Some("vim") ELSE None])
                     => spawned = << [program |-> "vim",
                                      args |-> << <<Sep, "d">> >>] >>

C8_Witness ==
    /\ spawned = << [program |-> "vim", args |-> << <<Sep, "d">> >>] >>
    /\ env = [k \in EditorVars |-> IF k = "EDITOR" THEN Some("vim") ELSE None]
    /\ args[1].package_name = "clap"
    /\ pc = "exited"

\* C9 (as stated): path derivation fails with "Path error", and the run
\* ends without resolving or spawning an editor, whenever the manifest path
\* has no directory part in front of its file name, a bare file name
\* included; with a directory part it yields that directory.
C9_BareNameFails ==
    StepDone(4) /\ package # 0
        => LET m == metadata[1][package].manifest_path
           IN  IF HasDir(m)
                 THEN package_path # None /\ IsDirOf(package_path[1], m)
                 ELSE /\ Failed("Path error")
                      /\ package_path = None
                      /\ editor_path = None
                      /\ spawned = <<>>

\* C9 (amended): path derivation fails with "Path error", and the run ends
\* without resolving or spawning an editor, exactly when the manifest path
\* has no file name at all (it is empty or only the root).  A bare file
\* name derives the empty path and the run goes on; a path with a directory
\* part derives that directory.
C9_OnlyNamelessFails ==
    StepDone(4) /\ package # 0
        => LET m == metadata[1][package].manifest_path
           IN  IF HasName(m)
                 THEN /\ package_path # None
                      /\ ~Failed("Path error")
                      /\ IsDirOf(package_path[1], m)
                      /\ ~HasDir(m) => package_path = Some(<<>>)
                 ELSE /\ Failed("Path error")
                      /\ package_path = None
                      /\ editor_path = None
                      /\ spawned = <<>>
                      /\ log = SubSeq(Pipeline, 1, 4)

C9_Witness ==
    /\ StepDone(4) /\ package # 0
    /\ metadata[1][package].manifest_path = RootOnly
    /\ Failed("Path error")
    /\ pc = "exited"
    /\ exit_code = Some(2)

\* C10: a variable whose value is not valid Unicode counts as unset: the
\* resolver's result is what "first set variable wins" gives on the
\* environment with the non-Unicode variables removed, and the error when
\* every variable is unset or non-Unicode.
C10_NonUnicodeIsUnset ==
    StepDone(5)
        => /\ EditorOutcomeIs(FirstVar(Erase(env), IsSetVar))
           /\ (\A k \in EditorVars : env[k] \in {None, Some(NonUnicode)})
                => Failed("Cannot resolve editor")
           /\ editor_path # Some(NonUnicode)

C10_Witness ==
    /\ StepDone(5)
    /\ env["CARGO_EDITOR"] = Some(NonUnicode)
    /\ env["VISUAL"] = Some(NonUnicode)
    /\ env["EDITOR"] = Some("vim")
    /\ editor_path = Some("vim")

====
